---- MODULE Spec2Model ----
(***************************************************************************)
(* Model of spec_analyzer_v2.py: a four-node LangGraph workflow            *)
(* (analyze_spec -> create_tickets -> human_review -> router ->            *)
(* analyze_spec | save_tickets -> END) compiled with a MemorySaver         *)
(* checkpointer, and the __main__ loop that starts one thread and resumes  *)
(* it with the operator's input until the snapshot has no pending node.    *)
(*                                                                         *)
(* Texts are sequences of tokens.  Operator input is a sequence of         *)
(* one-character strings so that str.lower() and string equality are       *)
(* computed and not assumed.                                               *)
(***************************************************************************)
EXTENDS Integers, Sequences, FiniteSets, TLC

\* ------------------------------------------------------------------ bounds
\* Largest number of resume calls made on one thread when two threads run.
MaxMultiResumes == 1
\* Largest number of records in a text given to the export under test.
MaxRecords == 3
\* Largest number of resume calls made on one thread.
MaxResumes == 2
\* Largest number of caller-contract violations tried in SpecAPI.
MaxMisuse == 2

\* ------------------------------------------------------------- vocabulary
Threads == {"t1", "t2"}
MainThread == "t1"

Keys == {"spec_text", "analysis_gaps", "ado_tickets", "human_feedback"}

NoNode == "__end__"
Nodes == {"analyze_spec", "create_tickets", "human_review", "save_tickets"}

APPROVE == <<"a", "p", "p", "r", "o", "v", "e">>
ApproveMixed == <<"A", "p", "p", "r", "O", "V", "e">>
ApproveSpace == <<"a", "p", "p", "r", "o", "v", "e", " ">>
MakeItShorter == <<"m", "a", "k", "e", " ", "i", "t", " ", "s", "h", "o", "r", "t", "e", "r">>
EmptyInput == << >>

\* What input() can hand to the loop (a sample of every routing case).
HumanInputs == {APPROVE, ApproveMixed, ApproveSpace, MakeItShorter, EmptyInput}

\* Requirement texts given to the first invoke.
SpecTexts == {<<"Build a login page for the mobile app.">>, <<"X">>}

\* Contents the two chat models may answer with.
Analyses == {<<"gapsA">>, <<"gapsB">>}

\* the three-backquote markdown fence, and the fence followed by json
FENCE == "<fence>"
FENCEJSON == "<fence>json"
WS == "\n"

Drafts ==
  { <<"[", "R1", ",", "R2", ",", "R3", "]">>,
    <<FENCEJSON, WS, "[", "R1", "]", WS, FENCE>>,
    <<"not json">>,
    <<"R1">> }

\* ----------------------------------------------------------- pure helpers
\* str.lower() on one character.
LowerChar(c) ==
  CASE c = "A" -> "a"
    [] c = "P" -> "p"
    [] c = "R" -> "r"
    [] c = "O" -> "o"
    [] c = "V" -> "v"
    [] c = "E" -> "e"
    [] OTHER -> c

\* str.lower()
Lower(s) == [i \in 1..Len(s) |-> LowerChar(s[i])]

\* dict.get(key, default) on a state whose keys are DOMAIN st.
Get(st, key, default) == IF key \in DOMAIN st THEN st[key] ELSE default

\* variant in which the returned dict replaces the state
MergeReplacing(st, upd) == upd

\* The channel update LangGraph applies with a node's returned dict.
Merge(st, upd) ==
  [k \in (DOMAIN st) \cup (DOMAIN upd) |-> IF k \in DOMAIN upd THEN upd[k] ELSE st[k]]

EmptyState == [k \in {} |-> << >>]

Update(key, val) == [k \in {key} |-> val]

\* needle occurs in hay as a contiguous run
Contains(hay, needle) ==
  \E i \in 0..(Len(hay) - Len(needle)) :
     \A j \in 1..Len(needle) : hay[i + j] = needle[j]

\* ----------------------------------------------------------- fixed edges
\* variant in which the analysis step leads straight to the review
EdgeSkippingDraft(node) ==
  CASE node = "analyze_spec" -> "human_review"
    [] node = "create_tickets" -> "human_review"
    [] OTHER -> NoNode

\* add_edge: lines 232, 233 and 240
edge(node) ==
  CASE node = "analyze_spec" -> "create_tickets"
    [] node = "create_tickets" -> "human_review"
    [] OTHER -> NoNode

\* ---------------------------------------------------------------- router
\* variants of router with a slip: no lower(), branches swapped, END returned
RouterCaseSensitive(st) ==
  IF Get(st, "human_feedback", << >>) = APPROVE THEN "save_tickets" ELSE "analyze_spec"

RouterSwapped(st) ==
  IF Lower(Get(st, "human_feedback", << >>)) = APPROVE THEN "analyze_spec" ELSE "save_tickets"

RouterToEnd(st) ==
  IF Lower(Get(st, "human_feedback", << >>)) = APPROVE THEN NoNode ELSE "analyze_spec"

RouterStartsWith(st) ==
  LET decision == Lower(Get(st, "human_feedback", << >>))
  IN  IF Len(decision) >= Len(APPROVE) /\ SubSeq(decision, 1, Len(APPROVE)) = APPROVE
      THEN "save_tickets" ELSE "analyze_spec"

router(st) ==
  LET decision == Lower(Get(st, "human_feedback", << >>))
  IN  IF decision = APPROVE THEN "save_tickets" ELSE "analyze_spec"

\* ------------------------------------------------- analyze_requirements
PROMPT_HEAD == "Analyze this requirement text."
PROMPT_IMPORTANT == "IMPORTANT: The user rejected the previous draft. Fix it based on this feedback: "
PROMPT_REQ == "REQUIREMENT TEXT:"

\* variant that drops the feedback from the prompt
AnalysisPromptNoFeedback(st) == <<PROMPT_HEAD>> \o <<PROMPT_REQ>> \o st["spec_text"]

\* the f-string of lines 53-65
AnalysisPrompt(st) ==
  LET fb == Get(st, "human_feedback", << >>)
      feedback_context == IF fb # << >> THEN <<PROMPT_IMPORTANT>> \o fb ELSE << >>
  IN  <<PROMPT_HEAD>> \o feedback_context \o <<PROMPT_REQ>> \o st["spec_text"]

\* ------------------------------------------------------ export_to_ado_csv
RecordToks == {"R1", "R2", "R3", "Rp"}

\* The JSON objects the record tokens stand for; Rp lacks three fields.
TicketOf(tok) ==
  CASE tok = "R1" -> [wit |-> "Task", title |-> "T1", descr |-> "D1", ac |-> "A1", prio |-> "1"]
    [] tok = "R2" -> [wit |-> "Bug", title |-> "T2", descr |-> "D2", ac |-> "A2", prio |-> "3"]
    [] tok = "R3" -> [wit |-> "Feature", title |-> "T3", descr |-> "D3", ac |-> "A3", prio |-> "4"]
    [] OTHER -> [title |-> "Tp", descr |-> "Dp"]

fieldnames == <<"wit", "title", "descr", "ac", "prio">>

\* variant that writes the description into the acceptance criteria column
CsvRowShiftedColumn(ticket) ==
  [wit   |-> Get(ticket, "wit", "User Story"),
   title |-> Get(ticket, "title", ""),
   descr |-> Get(ticket, "descr", ""),
   ac    |-> Get(ticket, "descr", ""),
   prio  |-> Get(ticket, "prio", "2")]

\* the dict handed to writer.writerow (lines 155-161)
CsvRow(ticket) ==
  [wit   |-> Get(ticket, "wit", "User Story"),
   title |-> Get(ticket, "title", ""),
   descr |-> Get(ticket, "descr", ""),
   ac    |-> Get(ticket, "ac", ""),
   prio  |-> Get(ticket, "prio", "2")]

RECURSIVE LStrip(_)
LStrip(s) == IF s # << >> /\ Head(s) = WS THEN LStrip(Tail(s)) ELSE s

RECURSIVE RStrip(_)
RStrip(s) == IF s # << >> /\ s[Len(s)] = WS THEN RStrip(SubSeq(s, 1, Len(s) - 1)) ELSE s

\* str.strip()
Strip(s) == RStrip(LStrip(s))

\* index of the first token of s at or after position from that is in delims,
\* Len(s) + 1 when there is none
RECURSIVE FirstDelim(_, _, _)
FirstDelim(s, from, delims) ==
  IF from > Len(s) THEN Len(s) + 1
  ELSE IF s[from] \in delims THEN from
  ELSE FirstDelim(s, from + 1, delims)

\* s.split(d)[1] for a text s that starts with d: the text between the first
\* and the second occurrence of d
SplitPiece1(s, delims) ==
  LET i == FirstDelim(s, 1, delims)
      j == FirstDelim(s, i + 1, delims)
      residue == IF s[i] = FENCEJSON /\ FENCE \in delims THEN <<"json">> ELSE << >>
  IN  residue \o SubSeq(s, i + 1, j - 1)

\* lines 128-135
CleanJson(tickets_json) ==
  LET c0 == Strip(tickets_json)
      c1 == IF c0 # << >> /\ c0[1] = FENCEJSON THEN SplitPiece1(c0, {FENCEJSON}) ELSE c0
      c2 == IF c1 # << >> /\ c1[1] \in {FENCE, FENCEJSON}
            THEN SplitPiece1(c1, {FENCE, FENCEJSON}) ELSE c1
      c3 == IF c2 # << >> /\ c2[Len(c2)] = FENCE THEN SubSeq(c2, 1, Len(c2) - 1) ELSE c2
  IN  Strip(c3)

\* the text is a JSON array of objects: [ obj , obj , ... ]
IsJsonArray(s) ==
  /\ Len(s) >= 2
  /\ s[1] = "["
  /\ s[Len(s)] = "]"
  /\ \/ Len(s) = 2
     \/ /\ Len(s) % 2 = 1
        /\ \A i \in 2..(Len(s) - 1) :
              IF i % 2 = 0 THEN s[i] \in RecordToks ELSE s[i] = ","

\* the text is one bare JSON object
IsJsonObject(s) == Len(s) = 1 /\ s[1] \in RecordToks

\* json.loads succeeds
JsonLoads(s) == IsJsonArray(s) \/ IsJsonObject(s)

\* the objects of a JSON array, in order
ArrayItems(s) == [i \in 1..((Len(s) - 1) \div 2) |-> TicketOf(s[2 * i])]

Missing == << >>
Present(content) == <<content>>

\* Effect of export_to_ado_csv(tickets_json) on the files, and its return
\* value: "csv" stands for output_file, "None" for None.
export_to_ado_csv(fs, tickets_json) ==
  LET cleaned == CleanJson(tickets_json)
  IN  IF ~JsonLoads(cleaned)
      THEN \* json.JSONDecodeError: lines 167-175
           [files |-> [fs EXCEPT !.raw = Present(tickets_json)], ret |-> "None"]
      ELSE IF IsJsonObject(cleaned)
      THEN \* the file is opened and the header written, then iterating a
           \* dict yields str keys and ticket.get raises: lines 176-178
           [files |-> [fs EXCEPT !.csv = Present(<< >>)], ret |-> "None"]
      ELSE [files |-> [fs EXCEPT !.csv =
                          Present([i \in 1..Len(ArrayItems(cleaned)) |->
                                      CsvRow(ArrayItems(cleaned)[i])])],
            ret |-> "csv"]

\* str.replace(old, "") for a one-token old
RECURSIVE RemoveTok(_, _)
RemoveTok(s, tok) ==
  IF s = << >> THEN << >>
  ELSE IF Head(s) = tok THEN RemoveTok(Tail(s), tok)
  ELSE <<Head(s)>> \o RemoveTok(Tail(s), tok)

\* variant that hands the fence-free text to the export
ExportInputCleaned(st) == RemoveTok(RemoveTok(st["ado_tickets"], FENCEJSON), FENCE)

\* line 196: the argument of export_to_ado_csv
ExportInput(st) == st["ado_tickets"]

\* Effect of save_to_file_node on the files (lines 183-196).
save_to_file(fs, st) ==
  LET clean_json == RemoveTok(RemoveTok(st["ado_tickets"], FENCEJSON), FENCE)
      fs1 == [fs EXCEPT !.json = Present(clean_json)]
  IN  export_to_ado_csv(fs1, ExportInput(st))

\* ------------------------------------------------------------------ state
VARIABLES
  pc,            \* per thread: where the caller of app.invoke / get_state is
  started,       \* per thread: the checkpointer holds a checkpoint
  values,        \* per thread: channel values of the latest checkpoint
  nextNode,      \* per thread: the node to run next (snapshot.next), NoNode after END
  interrupted,   \* per thread: human_review has a pending interrupt
  resumeVal,     \* per thread: Command(resume=...) not yet consumed, as << >> or <<v>>
  files,         \* the three files of the working directory
  callSteps,     \* per thread: nodes invoked by the current or last invoke call
  lastPrompt,    \* per thread: prompt of the latest gemini_model.invoke
  result,        \* per thread: how the latest invoke call ended
  pauses,        \* per thread: number of interrupts raised
  resumes,       \* per thread: number of Command(resume=...) calls
  previews,      \* per thread: number of times lines 101-103 printed the draft
  exportCalls,   \* per thread: number of calls of export_to_ado_csv
  exportArg,     \* per thread: argument of the latest export_to_ado_csv call
  pausedValues,  \* per thread: channel values when the latest interrupt was raised
  lastResume,    \* per thread: value of the latest Command(resume=...), as << >> or <<v>>
  snapshot,      \* per thread: the latest result of app.get_state
  lastOp,        \* the latest action and its thread
  misuse,        \* number of calls made outside the __main__ discipline
  routerIn,      \* argument of the router call under test
  routerOut,     \* its result
  mergeIn,       \* state and update of the merge under test
  mergeOut,      \* its result
  mergeDone,     \* the merge under test was applied
  exportIn,      \* text given to the export_to_ado_csv call under test
  exportOut      \* files and return value after it

vars == <<pc, started, values, nextNode, interrupted, resumeVal, files, callSteps,
          lastPrompt, result, pauses, resumes, previews, exportCalls, exportArg,
          pausedValues, lastResume, snapshot, lastOp, misuse, routerIn, routerOut,
          mergeIn, mergeOut, mergeDone, exportIn, exportOut>>

programVars == <<pc, started, values, nextNode, interrupted, resumeVal, files, callSteps,
                 lastPrompt, result, pauses, resumes, previews, exportCalls, exportArg,
                 pausedValues, lastResume, snapshot, lastOp, misuse>>

routerVars == <<routerIn, routerOut>>

mergeVars == <<mergeIn, mergeOut, mergeDone>>

exportVars == <<exportIn, exportOut>>

\* the variables of the function-level checks, which no graph step touches
probeVars == <<routerVars, mergeVars, exportVars>>

NoFiles == [json |-> Missing, csv |-> Missing, raw |-> Missing]

MergeIdle ==
  /\ mergeIn = [s |-> EmptyState, u |-> EmptyState]
  /\ mergeOut = EmptyState
  /\ mergeDone = FALSE

RouterIdle ==
  /\ routerIn = EmptyState
  /\ routerOut = "unset"

ExportIdle ==
  /\ exportIn = << >>
  /\ exportOut = [files |-> NoFiles, ret |-> "unset"]

NoSnapshot == [values |-> EmptyState, next |-> "unread"]

InitProgram ==
  /\ pc = [t \in Threads |-> "start"]
  /\ started = [t \in Threads |-> FALSE]
  /\ values = [t \in Threads |-> EmptyState]
  /\ nextNode = [t \in Threads |-> NoNode]
  /\ interrupted = [t \in Threads |-> FALSE]
  /\ resumeVal = [t \in Threads |-> << >>]
  /\ files = NoFiles
  /\ callSteps = [t \in Threads |-> << >>]
  /\ lastPrompt = [t \in Threads |-> << >>]
  /\ result = [t \in Threads |-> "none"]
  /\ pauses = [t \in Threads |-> 0]
  /\ resumes = [t \in Threads |-> 0]
  /\ previews = [t \in Threads |-> 0]
  /\ exportCalls = [t \in Threads |-> 0]
  /\ exportArg = [t \in Threads |-> << >>]
  /\ pausedValues = [t \in Threads |-> EmptyState]
  /\ lastResume = [t \in Threads |-> << >>]
  /\ snapshot = [t \in Threads |-> NoSnapshot]
  /\ lastOp = [op |-> "init", t |-> MainThread]
  /\ misuse = 0

Init ==
  /\ InitProgram
  /\ RouterIdle
  /\ MergeIdle
  /\ ExportIdle

\* An app.invoke call on thread t is executing.
InCall(t) == pc[t] \in {"in_start", "in_resume"}

\* Run status as the checkpoint shows it.
Status(t) ==
  IF ~started[t] THEN "CREATED"
  ELSE IF nextNode[t] = NoNode THEN "TERMINATED"
  ELSE IF interrupted[t] /\ ~InCall(t) THEN "PAUSED"
  ELSE "RUNNING"

\* ------------------------------------------------------- __main__, line 257
\* app.invoke({"spec_text": initial_spec}, config) on a thread without checkpoint
Start(t, text) ==
  /\ pc[t] = "start"
  /\ ~started[t]
  /\ pc' = [pc EXCEPT ![t] = "in_start"]
  /\ started' = [started EXCEPT ![t] = TRUE]
  /\ values' = [values EXCEPT ![t] = Merge(values[t], Update("spec_text", text))]
  /\ nextNode' = [nextNode EXCEPT ![t] = "analyze_spec"]
  /\ callSteps' = [callSteps EXCEPT ![t] = << >>]
  /\ result' = [result EXCEPT ![t] = "pending"]
  /\ lastOp' = [op |-> "Start", t |-> t]
  /\ UNCHANGED <<interrupted, resumeVal, files, lastPrompt, pauses, resumes, previews,
                 exportCalls, exportArg, pausedValues, lastResume, snapshot, misuse, probeVars>>

\* ------------------------------------------- analyze_requirements_node
Analyze(t) ==
  /\ InCall(t)
  /\ nextNode[t] = "analyze_spec"
  /\ lastPrompt' = [lastPrompt EXCEPT ![t] = AnalysisPrompt(values[t])]
  /\ callSteps' = [callSteps EXCEPT ![t] = Append(@, "analyze_spec")]
  /\ lastOp' = [op |-> "Analyze", t |-> t]
  /\ \/ \E content \in Analyses :
          /\ values' = [values EXCEPT ![t] = Merge(@, Update("analysis_gaps", content))]
          /\ nextNode' = [nextNode EXCEPT ![t] = edge("analyze_spec")]
          /\ UNCHANGED <<pc, result>>
     \/ \* gemini_model.invoke raises: the exception leaves app.invoke
        /\ pc' = [pc EXCEPT ![t] = "crashed"]
        /\ result' = [result EXCEPT ![t] = "error"]
        /\ UNCHANGED <<values, nextNode>>
  /\ UNCHANGED <<started, interrupted, resumeVal, files, pauses, resumes, previews,
                 exportCalls, exportArg, pausedValues, lastResume, snapshot, misuse, probeVars>>

\* -------------------------------------------------- draft_tickets_node
\* variant in which a failed drafting step is skipped over
DraftAdvancingOnFailure(t) ==
  /\ InCall(t)
  /\ nextNode[t] = "create_tickets"
  /\ callSteps' = [callSteps EXCEPT ![t] = Append(@, "create_tickets")]
  /\ lastOp' = [op |-> "Draft", t |-> t]
  /\ \/ \E content \in Drafts :
          /\ values' = [values EXCEPT ![t] = Merge(@, Update("ado_tickets", content))]
          /\ nextNode' = [nextNode EXCEPT ![t] = edge("create_tickets")]
          /\ UNCHANGED <<pc, result>>
     \/ /\ pc' = [pc EXCEPT ![t] = "crashed"]
        /\ result' = [result EXCEPT ![t] = "error"]
        /\ nextNode' = [nextNode EXCEPT ![t] = "human_review"]
        /\ UNCHANGED values
  /\ UNCHANGED <<started, interrupted, resumeVal, files, lastPrompt, pauses, resumes,
                 previews, exportCalls, exportArg, pausedValues, lastResume, snapshot, misuse,
                 probeVars>>

Draft(t) ==
  /\ InCall(t)
  /\ nextNode[t] = "create_tickets"
  /\ callSteps' = [callSteps EXCEPT ![t] = Append(@, "create_tickets")]
  /\ lastOp' = [op |-> "Draft", t |-> t]
  /\ \/ \E content \in Drafts :
          /\ values' = [values EXCEPT ![t] = Merge(@, Update("ado_tickets", content))]
          /\ nextNode' = [nextNode EXCEPT ![t] = edge("create_tickets")]
          /\ UNCHANGED <<pc, result>>
     \/ \* azure_model.invoke raises
        /\ pc' = [pc EXCEPT ![t] = "crashed"]
        /\ result' = [result EXCEPT ![t] = "error"]
        /\ UNCHANGED <<values, nextNode>>
  /\ UNCHANGED <<started, interrupted, resumeVal, files, lastPrompt, pauses, resumes,
                 previews, exportCalls, exportArg, pausedValues, lastResume, snapshot, misuse,
                 probeVars>>

\* --------------------------------------------------- human_review_node
\* line 112: the update the node returns once interrupt() has returned
HumanReviewReturnLowered(review_decision) == Update("human_feedback", Lower(review_decision))

\* variant that also blanks the draft
HumanReviewReturnClearingDraft(review_decision) ==
  [human_feedback |-> review_decision, ado_tickets |-> << >>]

human_review_return(review_decision) == Update("human_feedback", review_decision)

\* variant in which the interrupt is recorded but the loop goes on to the
\* conditional edge instead of returning to the caller
ReviewSuspendContinuing(t) ==
  /\ InCall(t)
  /\ nextNode[t] = "human_review"
  /\ resumeVal[t] = << >>
  /\ previews' = [previews EXCEPT ![t] = @ + 1]
  /\ interrupted' = [interrupted EXCEPT ![t] = TRUE]
  /\ pauses' = [pauses EXCEPT ![t] = @ + 1]
  /\ pausedValues' = [pausedValues EXCEPT ![t] = values[t]]
  /\ callSteps' = [callSteps EXCEPT ![t] = Append(@, "human_review")]
  /\ nextNode' = [nextNode EXCEPT ![t] = router(values[t])]
  /\ lastOp' = [op |-> "ReviewSuspend", t |-> t]
  /\ UNCHANGED <<pc, result, started, values, resumeVal, files, lastPrompt, resumes,
                 exportCalls, exportArg, lastResume, snapshot, misuse, probeVars>>

\* Entered without a resume value: the draft is printed, interrupt() raises,
\* the checkpoint keeps human_review as the pending node and app.invoke
\* returns to its caller.
ReviewSuspend(t) ==
  /\ InCall(t)
  /\ nextNode[t] = "human_review"
  /\ resumeVal[t] = << >>
  /\ previews' = [previews EXCEPT ![t] = @ + 1]
  /\ interrupted' = [interrupted EXCEPT ![t] = TRUE]
  /\ pauses' = [pauses EXCEPT ![t] = @ + 1]
  /\ pausedValues' = [pausedValues EXCEPT ![t] = values[t]]
  /\ callSteps' = [callSteps EXCEPT ![t] = Append(@, "human_review")]
  /\ pc' = [pc EXCEPT ![t] = "check"]
  /\ result' = [result EXCEPT ![t] = "ok"]
  /\ lastOp' = [op |-> "ReviewSuspend", t |-> t]
  /\ UNCHANGED <<started, values, nextNode, resumeVal, files, lastPrompt, resumes,
                 exportCalls, exportArg, lastResume, snapshot, misuse, probeVars>>

\* variant in which the resume value stays pending after it was returned
ReviewCompleteKeepingResume(t) ==
  /\ InCall(t)
  /\ nextNode[t] = "human_review"
  /\ resumeVal[t] # << >>
  /\ LET review_decision == resumeVal[t][1]
         merged == Merge(values[t], human_review_return(review_decision))
     IN  /\ values' = [values EXCEPT ![t] = merged]
         /\ nextNode' = [nextNode EXCEPT ![t] = router(merged)]
  /\ previews' = [previews EXCEPT ![t] = @ + 1]
  /\ interrupted' = [interrupted EXCEPT ![t] = FALSE]
  /\ callSteps' = [callSteps EXCEPT ![t] = Append(@, "human_review")]
  /\ lastOp' = [op |-> "ReviewComplete", t |-> t]
  /\ UNCHANGED <<pc, started, resumeVal, files, lastPrompt, result, pauses, resumes,
                 exportCalls, exportArg, pausedValues, lastResume, snapshot, misuse,
                 probeVars>>

\* Entered with a resume value: the node runs again from its first line, the
\* draft is printed again, interrupt() returns the value, the node returns
\* {"human_feedback": value} and the conditional edge calls router.
ReviewComplete(t) ==
  /\ InCall(t)
  /\ nextNode[t] = "human_review"
  /\ resumeVal[t] # << >>
  /\ LET review_decision == resumeVal[t][1]
         merged == Merge(values[t], human_review_return(review_decision))
     IN  /\ values' = [values EXCEPT ![t] = merged]
         /\ nextNode' = [nextNode EXCEPT ![t] = router(merged)]
  /\ previews' = [previews EXCEPT ![t] = @ + 1]
  /\ resumeVal' = [resumeVal EXCEPT ![t] = << >>]
  /\ interrupted' = [interrupted EXCEPT ![t] = FALSE]
  /\ callSteps' = [callSteps EXCEPT ![t] = Append(@, "human_review")]
  /\ lastOp' = [op |-> "ReviewComplete", t |-> t]
  /\ UNCHANGED <<pc, started, files, lastPrompt, result, pauses, resumes, exportCalls,
                 exportArg, pausedValues, lastResume, snapshot, misuse, probeVars>>

\* ---------------------------------------------------- save_to_file_node
\* The node returns {} and its successor is END: app.invoke returns.
Save(t) ==
  /\ InCall(t)
  /\ nextNode[t] = "save_tickets"
  /\ files' = save_to_file(files, values[t]).files
  /\ exportCalls' = [exportCalls EXCEPT ![t] = @ + 1]
  /\ exportArg' = [exportArg EXCEPT ![t] = ExportInput(values[t])]
  /\ values' = [values EXCEPT ![t] = Merge(@, EmptyState)]
  /\ nextNode' = [nextNode EXCEPT ![t] = edge("save_tickets")]
  /\ callSteps' = [callSteps EXCEPT ![t] = Append(@, "save_tickets")]
  /\ pc' = [pc EXCEPT ![t] = "check"]
  /\ result' = [result EXCEPT ![t] = "ok"]
  /\ lastOp' = [op |-> "Save", t |-> t]
  /\ UNCHANGED <<started, interrupted, resumeVal, lastPrompt, pauses, resumes, previews,
                 pausedValues, lastResume, snapshot, misuse, probeVars>>

\* -------------------------------------------------- __main__, lines 263-278
\* variant in which reading the snapshot drops the pending interrupt
GetStateConsuming(t) ==
  /\ pc[t] = "check"
  /\ snapshot' = [snapshot EXCEPT ![t] = [values |-> values[t], next |-> nextNode[t]]]
  /\ interrupted' = [interrupted EXCEPT ![t] = FALSE]
  /\ pc' = [pc EXCEPT ![t] = IF nextNode[t] = NoNode THEN "done" ELSE "input"]
  /\ lastOp' = [op |-> "GetState", t |-> t]
  /\ UNCHANGED <<started, values, nextNode, resumeVal, files, callSteps,
                 lastPrompt, result, pauses, resumes, previews, exportCalls, exportArg,
                 pausedValues, lastResume, misuse, probeVars>>

\* variant with the break condition inverted
GetStateInverted(t) ==
  /\ pc[t] = "check"
  /\ snapshot' = [snapshot EXCEPT ![t] = [values |-> values[t], next |-> nextNode[t]]]
  /\ pc' = [pc EXCEPT ![t] = IF nextNode[t] # NoNode THEN "done" ELSE "input"]
  /\ lastOp' = [op |-> "GetState", t |-> t]
  /\ UNCHANGED <<started, values, nextNode, interrupted, resumeVal, files, callSteps,
                 lastPrompt, result, pauses, resumes, previews, exportCalls, exportArg,
                 pausedValues, lastResume, misuse, probeVars>>

\* snapshot = app.get_state(config); if not snapshot.next: break
GetState(t) ==
  /\ pc[t] = "check"
  /\ snapshot' = [snapshot EXCEPT ![t] = [values |-> values[t], next |-> nextNode[t]]]
  /\ pc' = [pc EXCEPT ![t] = IF nextNode[t] = NoNode THEN "done" ELSE "input"]
  /\ lastOp' = [op |-> "GetState", t |-> t]
  /\ UNCHANGED <<started, values, nextNode, interrupted, resumeVal, files, callSteps,
                 lastPrompt, result, pauses, resumes, previews, exportCalls, exportArg,
                 pausedValues, lastResume, misuse, probeVars>>

\* user_input = input(...); app.invoke(Command(resume=user_input), config)
Resume(t, user_input) ==
  /\ pc[t] = "input"
  /\ resumes[t] < MaxResumes
  /\ pc' = [pc EXCEPT ![t] = "in_resume"]
  /\ resumeVal' = [resumeVal EXCEPT ![t] = <<user_input>>]
  /\ resumes' = [resumes EXCEPT ![t] = @ + 1]
  /\ lastResume' = [lastResume EXCEPT ![t] = <<user_input>>]
  /\ callSteps' = [callSteps EXCEPT ![t] = << >>]
  /\ result' = [result EXCEPT ![t] = "pending"]
  /\ lastOp' = [op |-> "Resume", t |-> t]
  /\ UNCHANGED <<started, values, nextNode, interrupted, files, lastPrompt, pauses,
                 previews, exportCalls, exportArg, pausedValues, snapshot, misuse,
                 probeVars>>

\* ------------------------------------------------------------ the program
Next ==
  \/ \E text \in SpecTexts : Start(MainThread, text)
  \/ Analyze(MainThread)
  \/ Draft(MainThread)
  \/ ReviewSuspend(MainThread)
  \/ ReviewComplete(MainThread)
  \/ Save(MainThread)
  \/ GetState(MainThread)
  \/ \E v \in HumanInputs : Resume(MainThread, v)

Spec == Init /\ [][Next]_vars

\* ------------------------------------------- calls __main__ never makes
\* app.invoke({"spec_text": text}, config) on a thread that already has a
\* checkpoint and no call executing.  The compiled graph has no "thread
\* exists" check: the input is written over the stored channels, a pending
\* interrupt is discarded and the graph runs again from its entry point.
StartExisting(t, text) ==
  /\ misuse < MaxMisuse
  /\ started[t]
  /\ pc[t] \in {"check", "input", "done"}
  /\ misuse' = misuse + 1
  /\ pc' = [pc EXCEPT ![t] = "in_start"]
  /\ values' = [values EXCEPT ![t] = Merge(values[t], Update("spec_text", text))]
  /\ nextNode' = [nextNode EXCEPT ![t] = "analyze_spec"]
  /\ interrupted' = [interrupted EXCEPT ![t] = FALSE]
  /\ resumeVal' = [resumeVal EXCEPT ![t] = << >>]
  /\ callSteps' = [callSteps EXCEPT ![t] = << >>]
  /\ result' = [result EXCEPT ![t] = "pending"]
  /\ lastOp' = [op |-> "StartExisting", t |-> t]
  /\ UNCHANGED <<started, files, lastPrompt, pauses, resumes, previews, exportCalls,
                 exportArg, pausedValues, lastResume, snapshot, probeVars>>

\* app.invoke(Command(resume=v), config) on a thread whose graph reached END:
\* there is no pending task, the call runs no node and returns the stored
\* values without raising.
ResumeTerminated(t, v) ==
  /\ misuse < MaxMisuse
  /\ started[t]
  /\ nextNode[t] = NoNode
  /\ pc[t] \in {"check", "done"}
  /\ misuse' = misuse + 1
  /\ callSteps' = [callSteps EXCEPT ![t] = << >>]
  /\ result' = [result EXCEPT ![t] = "ok"]
  /\ lastOp' = [op |-> "ResumeTerminated", t |-> t]
  /\ UNCHANGED <<pc, started, values, nextNode, interrupted, resumeVal, files,
                 lastPrompt, pauses, resumes, previews, exportCalls, exportArg,
                 pausedValues, lastResume, snapshot, probeVars>>

\* app.invoke(Command(resume=v), config) on a thread without checkpoint.  The
\* script pins no library version; the call raises, either before any node
\* runs (no input for the entry point) or from analyze_requirements_node,
\* entered with an empty state, at state['spec_text'] (line 64).
ResumeUnknown(t, v) ==
  /\ misuse < MaxMisuse
  /\ ~started[t]
  /\ pc[t] = "start"
  /\ misuse' = misuse + 1
  /\ result' = [result EXCEPT ![t] = "error"]
  /\ lastOp' = [op |-> "ResumeUnknown", t |-> t]
  /\ \/ UNCHANGED <<pc, started, nextNode, callSteps>>
     \/ /\ pc' = [pc EXCEPT ![t] = "crashed"]
        /\ started' = [started EXCEPT ![t] = TRUE]
        /\ nextNode' = [nextNode EXCEPT ![t] = "analyze_spec"]
        /\ callSteps' = [callSteps EXCEPT ![t] = <<"analyze_spec">>]
  /\ UNCHANGED <<values, interrupted, resumeVal, files, lastPrompt, pauses, resumes,
                 previews, exportCalls, exportArg, pausedValues, lastResume, snapshot, probeVars>>

NextAPI ==
  \/ Next
  \/ \E text \in SpecTexts : StartExisting(MainThread, text)
  \/ \E v \in HumanInputs : ResumeTerminated(MainThread, v)
  \/ \E v \in HumanInputs : ResumeUnknown(MainThread, v)

SpecAPI == Init /\ [][NextAPI]_vars

\* app.invoke(None, config) after a call that raised: the graph goes on from
\* the latest checkpoint, whose pending node is the one that failed.
Retry(t) ==
  /\ misuse < MaxMisuse
  /\ pc[t] = "crashed"
  /\ started[t]
  /\ misuse' = misuse + 1
  /\ pc' = [pc EXCEPT ![t] = "in_resume"]
  /\ callSteps' = [callSteps EXCEPT ![t] = << >>]
  /\ result' = [result EXCEPT ![t] = "pending"]
  /\ lastOp' = [op |-> "Retry", t |-> t]
  /\ UNCHANGED <<started, values, nextNode, interrupted, resumeVal, files, lastPrompt,
                 pauses, resumes, previews, exportCalls, exportArg, pausedValues,
                 lastResume, snapshot, probeVars>>

NextRetry ==
  \/ Next
  \/ Retry(MainThread)

SpecRetry == Init /\ [][NextRetry]_vars

\* ------------------------------------------------- two threads of one app
\* A host drives both thread ids through the same compiled graph and
\* checkpointer, each the way __main__ drives its own, in any interleaving
\* of their steps.
NextMulti ==
  \E t \in Threads :
    \/ \E text \in SpecTexts : Start(t, text)
    \/ Analyze(t)
    \/ Draft(t)
    \/ ReviewSuspend(t)
    \/ ReviewComplete(t)
    \/ Save(t)
    \/ GetState(t)
    \/ \E v \in {APPROVE, MakeItShorter} : resumes[t] < MaxMultiResumes /\ Resume(t, v)

SpecMulti == Init /\ [][NextMulti]_vars

\* ------------------------------------------------- router as a function
UpperChar(c) ==
  CASE c = "a" -> "A"
    [] c = "p" -> "P"
    [] c = "r" -> "R"
    [] c = "o" -> "O"
    [] c = "v" -> "V"
    [] c = "e" -> "E"
    [] OTHER -> c

\* "approve" in every mix of upper and lower case
CaseVariants ==
  { [i \in 1..Len(APPROVE) |-> IF i \in S THEN UpperChar(APPROVE[i]) ELSE APPROVE[i]] :
      S \in SUBSET (1..Len(APPROVE)) }

\* v equals "approve" up to letter case, letter by letter
IsApproveCI(v) ==
  /\ Len(v) = Len(APPROVE)
  /\ \A i \in 1..Len(APPROVE) : v[i] = APPROVE[i] \/ v[i] = UpperChar(APPROVE[i])

RouterValues ==
  CaseVariants
    \cup { SubSeq(APPROVE, 1, n) : n \in 0..(Len(APPROVE) - 1) }
    \cup { v \o <<" ">> : v \in CaseVariants }
    \cup { <<" ">> \o APPROVE, APPROVE \o APPROVE, MakeItShorter }

RouterStates ==
  {EmptyState, [spec_text |-> <<"X">>, ado_tickets |-> <<"R1">>]}
    \cup { Update("human_feedback", v) : v \in RouterValues }
    \cup { [spec_text |-> <<"X">>, human_feedback |-> v] : v \in HumanInputs }

InitRouter ==
  /\ InitProgram
  /\ routerIn \in RouterStates
  /\ routerOut = "unset"
  /\ MergeIdle
  /\ ExportIdle

ApplyRouter ==
  /\ routerOut = "unset"
  /\ routerOut' = router(routerIn)
  /\ UNCHANGED <<pc, started, values, nextNode, interrupted, resumeVal, files, callSteps,
                 lastPrompt, result, pauses, resumes, previews, exportCalls, exportArg,
                 pausedValues, lastResume, snapshot, lastOp, misuse, routerIn,
                 mergeVars, exportVars>>

NextRouter == ApplyRouter

SpecRouter == InitRouter /\ [][NextRouter]_vars

\* -------------------------------------------------- merge as a function
MergeTexts == {<<"a">>, <<"b">>}

\* every State with some of the four keys set
PartialStates == UNION { [D -> MergeTexts] : D \in SUBSET Keys }

InitMerge ==
  /\ InitProgram
  /\ RouterIdle
  /\ ExportIdle
  /\ mergeIn \in [s : PartialStates, u : PartialStates]
  /\ mergeOut = EmptyState
  /\ mergeDone = FALSE

ApplyMerge ==
  /\ ~mergeDone
  /\ mergeOut' = Merge(mergeIn.s, mergeIn.u)
  /\ mergeDone' = TRUE
  /\ UNCHANGED <<programVars, routerVars, exportVars, mergeIn>>

NextMerge == ApplyMerge

SpecMerge == InitMerge /\ [][NextMerge]_vars

\* ------------------------------------------------- export as a function
\* the JSON text of an array of the given objects
RECURSIVE Joined(_)
Joined(toks) ==
  IF toks = << >> THEN << >>
  ELSE IF Len(toks) = 1 THEN toks
  ELSE <<Head(toks), ",">> \o Joined(Tail(toks))

ArrayText(toks) == <<"[">> \o Joined(toks) \o <<"]">>

TokSeqs == UNION { [1..n -> RecordToks] : n \in 0..MaxRecords }

\* the ways a chat model wraps its answer
Wrappings(text) ==
  { text,
    <<FENCEJSON, WS>> \o text \o <<WS, FENCE>>,
    <<FENCE, WS>> \o text \o <<WS, FENCE>>,
    <<WS>> \o text \o <<WS>>,
    <<"Here are the work items:", WS, FENCEJSON, WS>> \o text \o <<WS, FENCE>> }

ExportInputs ==
  UNION { Wrappings(ArrayText(toks)) : toks \in TokSeqs }
    \cup Drafts
    \cup { << >>, <<"[", "R1", ",", "]">>, <<"[", "R1">>, <<FENCEJSON, WS, "R2", WS, FENCE>> }

InitExport ==
  /\ InitProgram
  /\ RouterIdle
  /\ MergeIdle
  /\ exportIn \in ExportInputs
  /\ exportOut = [files |-> NoFiles, ret |-> "unset"]

ApplyExport ==
  /\ exportOut.ret = "unset"
  /\ exportOut' = export_to_ado_csv(NoFiles, exportIn)
  /\ UNCHANGED <<programVars, routerVars, mergeVars, exportIn>>

NextExport == ApplyExport

SpecExport == InitExport /\ [][NextExport]_vars

\* =================================================================== claims
LastT == lastOp.t

\* C1: resuming a paused run with "approve" completes the review step, routes
\* to save_tickets and reaches END: during the call the only nodes run are
\* human_review then save_tickets, when the call has returned the run is
\* TERMINATED and the export was called exactly once in it; the export is
\* never called a second time for the run.
C1_ApproveTerminates ==
  \A t \in Threads :
    /\ exportCalls[t] <= 1
    /\ lastResume[t] = <<APPROVE>>
          => /\ InCall(t) =>
                   \/ callSteps[t] = << >> /\ nextNode[t] = "human_review" /\ exportCalls[t] = 0
                   \/ callSteps[t] = <<"human_review">> /\ nextNode[t] = "save_tickets"
                         /\ exportCalls[t] = 0
             /\ ~InCall(t) =>
                   /\ result[t] = "ok"
                   /\ Status(t) = "TERMINATED"
                   /\ callSteps[t] = <<"human_review", "save_tickets">>
                   /\ exportCalls[t] = 1

C1_Witness ==
  /\ lastResume[MainThread] = <<APPROVE>>
  /\ Status(MainThread) = "TERMINATED"
  /\ exportCalls[MainThread] = 1
  /\ resumes[MainThread] = 2

\* C2: after a resume with a non-empty value that is not "approve" in any
\* letter case, the router sends the run to analyze_spec, the analysis is
\* the node invoked right after the review step, and its prompt contains
\* the value, letter for letter.
IsFeedback(v) == v # << >> /\ ~IsApproveCI(v)

C2_FeedbackReachesAnalysis ==
  \A t \in Threads :
    (lastResume[t] # << >> /\ IsFeedback(lastResume[t][1]))
      => /\ (LastT = t /\ lastOp.op = "ReviewComplete") => nextNode[t] = "analyze_spec"
         /\ "save_tickets" \notin {callSteps[t][i] : i \in 1..Len(callSteps[t])}
         /\ Len(callSteps[t]) >= 2
               => /\ callSteps[t][2] = "analyze_spec"
                  /\ Contains(lastPrompt[t], lastResume[t][1])

C2_Witness ==
  /\ lastResume[MainThread] = <<MakeItShorter>>
  /\ lastOp.op = "Analyze"
  /\ callSteps[MainThread] = <<"human_review", "analyze_spec">>
  /\ Contains(lastPrompt[MainThread], MakeItShorter)

\* C3: router returns save_tickets exactly when human_feedback equals
\* "approve" up to letter case; for every other value, the empty string and
\* a missing key included, it returns analyze_spec; it returns nothing else.
C3_RouterDecision ==
  routerOut # "unset"
    => /\ routerOut \in {"analyze_spec", "save_tickets"}
       /\ routerOut = "save_tickets"
             <=> ("human_feedback" \in DOMAIN routerIn /\ IsApproveCI(routerIn["human_feedback"]))

C3_Witness ==
  /\ routerOut = "save_tickets"
  /\ routerIn["human_feedback"] = ApproveMixed

\* C4: the status of a run changes only CREATED -> RUNNING by the first
\* invoke, RUNNING -> PAUSED by the interrupt of human_review, PAUSED ->
\* RUNNING by a resume, RUNNING -> TERMINATED by the completion of
\* save_tickets; nothing leaves TERMINATED.
C4_Transition(t) ==
  LET old == Status(t)
      new == Status(t)'
      op == lastOp'.op
  IN  old # new =>
        \/ old = "CREATED" /\ new = "RUNNING" /\ op = "Start"
        \/ old = "RUNNING" /\ new = "PAUSED" /\ op = "ReviewSuspend"
        \/ old = "PAUSED" /\ new = "RUNNING" /\ op = "Resume"
        \/ old = "RUNNING" /\ new = "TERMINATED" /\ op = "Save"

\* C4, as a property of every step: each status change of a run is one of
\* the four transitions above, made by the operation named there.
C4_StatusMachine == [][\A t \in Threads : C4_Transition(t)]_vars

C4_Witness ==
  /\ Status(MainThread) = "TERMINATED"
  /\ pauses[MainThread] = 2
  /\ resumes[MainThread] = 2

\* C5: a paused run that is not resumed stays paused with the same State;
\* get_state returns the State of the pause and changes neither the State,
\* the status nor the checkpoint.
C5_PausedStep(t) ==
  /\ (Status(t) = "PAUSED" /\ lastOp'.op # "Resume")
        => /\ Status(t)' = "PAUSED"
           /\ values'[t] = values[t]
           /\ nextNode'[t] = nextNode[t]
  /\ (lastOp'.op = "GetState" /\ lastOp'.t = t)
        => /\ Status(t)' = Status(t)
           /\ UNCHANGED <<values, nextNode, interrupted, resumeVal, started, files>>

C5_SnapshotAtPause ==
  \A t \in Threads :
    (pc[t] = "input")
      => /\ Status(t) = "PAUSED"
         /\ snapshot[t] = [values |-> pausedValues[t], next |-> "human_review"]
         /\ values[t] = pausedValues[t]

\* C5, as a property of every state and step: the snapshot read at a pause
\* is the State of the pause, and only a resume moves a paused run.
C5_PausedIsStable ==
  /\ []C5_SnapshotAtPause
  /\ [][\A t \in Threads : C5_PausedStep(t)]_vars

C5_Witness ==
  /\ pc[MainThread] = "input"
  /\ resumes[MainThread] = 0
  /\ snapshot[MainThread].next = "human_review"
  /\ snapshot[MainThread].values = values[MainThread]

\* C6: a resume on a thread that was never started, or on a run that is not
\* paused, fails: the failure is reported to the caller.
C6_ResumeNotPausedFails ==
  lastOp.op \in {"ResumeUnknown", "ResumeTerminated"} => result[LastT] = "error"

\* C7: a start on a thread that already has a run fails and leaves the
\* run's State and status as they were.
C7_StartStep(t) ==
  (lastOp'.op = "StartExisting" /\ lastOp'.t = t)
    => /\ result'[t] = "error"
       /\ values'[t] = values[t]
       /\ Status(t)' = Status(t)

\* C7, as a property of every step: a start on an existing run reports an
\* error and changes neither its State nor its status.
C7_StartExistingFails == [][\A t \in Threads : C7_StartStep(t)]_vars

\* C8: the step that suspends is the last step of its invoke call and the
\* call returns with the run PAUSED; while the run is paused and no resume
\* was given no step of the run is invoked.
C8_SuspendIsLast ==
  \A t \in Threads :
    /\ (interrupted[t] /\ resumeVal[t] = << >>) => (~InCall(t) /\ Status(t) = "PAUSED")
    /\ \A i \in 2..Len(callSteps[t]) :
          callSteps[t][i] = "human_review"
            => /\ i = Len(callSteps[t])
               /\ ~InCall(t)
               /\ result[t] = "ok"
               /\ Status(t) = "PAUSED"

C8_PausedStep(t) ==
  Status(t) = "PAUSED"
    => \/ callSteps'[t] = callSteps[t] /\ previews'[t] = previews[t]
       \/ lastOp'.op = "Resume" /\ lastOp'.t = t /\ callSteps'[t] = << >>

\* C8, as a property of every state and step: a suspending review step ends
\* its call, and a paused run runs no step before the next resume.
C8_SuspendYieldsControl ==
  /\ []C8_SuspendIsLast
  /\ [][\A t \in Threads : C8_PausedStep(t)]_vars

C8_Witness ==
  /\ callSteps[MainThread] = <<"human_review", "analyze_spec", "create_tickets", "human_review">>
  /\ Status(MainThread) = "PAUSED"
  /\ pc[MainThread] = "input"

\* C9 as claimed: when the review step completes after a resume, nothing of
\* the node before the interrupt call has run again (the draft was printed
\* once per pause), no analysis or drafting ran in the call before it, and
\* human_feedback is the resume value.
C9_NoReplay ==
  \A t \in Threads :
    (LastT = t /\ lastOp.op = "ReviewComplete")
      => /\ previews[t] = pauses[t]
         /\ callSteps[t] = <<"human_review">>
         /\ values[t]["human_feedback"] = lastResume[t][1]

\* C9 as amended: when the review step completes after a resume, the node
\* has run again from its first line (the draft was printed once per pause
\* and once more per resume), it is the only node the call has run, the
\* analysis and the draft are those of the pause, and human_feedback is
\* exactly the resume value.
C9_ResumeReplaysReview ==
  \A t \in Threads :
    (LastT = t /\ lastOp.op = "ReviewComplete")
      => /\ previews[t] = pauses[t] + resumes[t]
         /\ callSteps[t] = <<"human_review">>
         /\ values[t]["human_feedback"] = lastResume[t][1]
         /\ values[t]["analysis_gaps"] = pausedValues[t]["analysis_gaps"]
         /\ values[t]["ado_tickets"] = pausedValues[t]["ado_tickets"]
         /\ values[t]["spec_text"] = pausedValues[t]["spec_text"]

C9_Witness ==
  /\ lastOp.op = "ReviewComplete"
  /\ lastResume[MainThread] = <<ApproveMixed>>
  /\ values[MainThread]["human_feedback"] = ApproveMixed
  /\ previews[MainThread] = 4

\* C10: every entry into human_review raises one interrupt and every resume
\* value ends one: the number of pauses is the number of resumes plus one
\* while the run is paused and equal to it otherwise, a completed review
\* leaves no resume value and no interrupt behind, and a fresh entry into
\* the review step finds no resume value.
C10_OnePausePerEntry ==
  \A t \in Threads :
    /\ Status(t) = "PAUSED" => pauses[t] = resumes[t] + 1
    /\ Status(t) # "PAUSED" => pauses[t] = resumes[t]
    /\ pc[t] = "done" => pauses[t] = resumes[t]
    /\ (LastT = t /\ lastOp.op = "ReviewComplete") => (resumeVal[t] = << >> /\ ~interrupted[t])
    /\ (nextNode[t] = "human_review" /\ ~interrupted[t]) => resumeVal[t] = << >>
    /\ Len(callSteps[t]) <= 4

C10_Witness ==
  /\ Status(MainThread) = "PAUSED"
  /\ pauses[MainThread] = 3
  /\ resumes[MainThread] = 2

\* C11: merging an update u into a State s gives a State whose keys are
\* those of s and of u, with u's value for every key of u and s's value for
\* every other key of s; no key of s is lost, and the empty update of the
\* save step gives s back.
C11_MergeKeepsAndOverwrites ==
  mergeDone
    => /\ DOMAIN mergeOut = (DOMAIN mergeIn.s) \cup (DOMAIN mergeIn.u)
       /\ \A k \in DOMAIN mergeIn.u : mergeOut[k] = mergeIn.u[k]
       /\ \A k \in (DOMAIN mergeIn.s) \ (DOMAIN mergeIn.u) : mergeOut[k] = mergeIn.s[k]
       /\ mergeIn.u = EmptyState => mergeOut = mergeIn.s

C11_Witness ==
  /\ mergeDone
  /\ mergeIn.s = [spec_text |-> <<"a">>, ado_tickets |-> <<"a">>, human_feedback |-> <<"b">>]
  /\ mergeIn.u = [ado_tickets |-> <<"b">>, analysis_gaps |-> <<"b">>]
  /\ mergeOut = [spec_text |-> <<"a">>, analysis_gaps |-> <<"b">>, ado_tickets |-> <<"b">>,
                 human_feedback |-> <<"b">>]

\* C12: every step changes only the field it owns: spec_text is set by the
\* start and by nothing after it, analysis_gaps changes only in the analysis
\* step, ado_tickets only in the drafting step, human_feedback only when
\* the review step completes, and the save step changes no field.
Absent == <<"<absent>">>

Field(st, k) == Get(st, k, Absent)

Owner(k) ==
  CASE k = "spec_text" -> "Start"
    [] k = "analysis_gaps" -> "Analyze"
    [] k = "ado_tickets" -> "Draft"
    [] OTHER -> "ReviewComplete"

C12_Step(t) ==
  /\ \A k \in Keys :
        Field(values'[t], k) # Field(values[t], k)
          => /\ lastOp' = [op |-> Owner(k), t |-> t]
             /\ \A k2 \in Keys \ {k} : Field(values'[t], k2) = Field(values[t], k2)
  /\ DOMAIN values'[t] \subseteq Keys
  /\ DOMAIN values[t] \subseteq DOMAIN values'[t]
  /\ lastOp'.op = "Save" => values' = values

C12_StepsOwnTheirField == [][\A t \in Threads : C12_Step(t)]_vars

C12_Witness ==
  /\ lastOp.op = "Draft"
  /\ resumes[MainThread] = 2
  /\ values[MainThread]["human_feedback"] = MakeItShorter
  /\ values[MainThread]["ado_tickets"] # pausedValues[MainThread]["ado_tickets"]
  /\ values[MainThread]["spec_text"] = pausedValues[MainThread]["spec_text"]

\* C13: when a chat model call fails in the analysis or the drafting step,
\* the invoke call ends with the error, the step's update is not merged, the
\* failed step stays the pending node and no other step of the run is
\* invoked; invoking the thread again runs that same step first.
NodeOp(node) ==
  CASE node = "analyze_spec" -> "Analyze"
    [] node = "create_tickets" -> "Draft"
    [] OTHER -> "none"

C13_FailedState ==
  \A t \in Threads :
    result[t] = "error"
      => /\ pc[t] = "crashed"
         /\ Status(t) = "RUNNING"
         /\ nextNode[t] \in {"analyze_spec", "create_tickets"}
         /\ callSteps[t] # << >>
         /\ callSteps[t][Len(callSteps[t])] = nextNode[t]

C13_Step(t) ==
  /\ (result'[t] = "error" /\ result[t] # "error")
        => /\ lastOp' = [op |-> NodeOp(nextNode[t]), t |-> t]
           /\ values'[t] = values[t]
           /\ nextNode'[t] = nextNode[t]
  /\ result[t] = "error"
        => \/ lastOp' = [op |-> "Retry", t |-> t] /\ values'[t] = values[t]
                 /\ nextNode'[t] = nextNode[t]
           \/ UNCHANGED <<values, nextNode, callSteps, result, pc>>
  /\ (lastOp = [op |-> "Retry", t |-> t] /\ lastOp' # lastOp)
        => /\ lastOp' = [op |-> NodeOp(nextNode[t]), t |-> t]
           /\ callSteps'[t] = <<nextNode[t]>>

C13_FailureHaltsTheRun ==
  /\ []C13_FailedState
  /\ [][\A t \in Threads : C13_Step(t)]_vars

C13_Witness ==
  /\ lastOp.op = "Draft"
  /\ misuse = 1
  /\ callSteps[MainThread] = <<"create_tickets">>
  /\ nextNode[MainThread] = "human_review"
  /\ resumes[MainThread] = 1

\* The record objects of a text, in order, and the text without fences and
\* surrounding white space.
RecordsOf(text) == SelectSeq(text, LAMBDA x : x \in RecordToks)

Unfenced(text) == SelectSeq(text, LAMBDA x : x \notin {FENCE, FENCEJSON, WS})

\* the text is, inside its fences, a JSON array of objects
IsRecordArrayText(text) == Unfenced(text) = ArrayText(RecordsOf(text))

\* C14: when the draft given to the export is not a sequence of records, the
\* raw draft is written to the fallback file, and the run still terminates
\* with an artifact.
C14_UnparsedDraftFallsBack ==
  \A t \in Threads :
    (exportCalls[t] > 0 /\ ~IsRecordArrayText(exportArg[t]))
      => /\ files.raw = Present(exportArg[t])
         /\ Status(t) = "TERMINATED"
         /\ files.json # Missing

\* C15: the export of a well-formed text of N records that carry the five
\* fields returns the CSV path and writes exactly N rows, in the order of
\* the text, each field equal to the field of the record.
FullRecordToks == {"R1", "R2", "R3"}

C15_ExportsEveryRecord ==
  LET toks == RecordsOf(exportIn)
      rows == exportOut.files.csv[1]
  IN  (/\ exportOut.ret # "unset"
       /\ exportIn = ArrayText(toks) \/ exportIn = <<FENCEJSON, WS>> \o ArrayText(toks) \o <<WS, FENCE>>
       /\ \A i \in 1..Len(toks) : toks[i] \in FullRecordToks)
        => /\ exportOut.ret = "csv"
           /\ exportOut.files.csv # Missing
           /\ exportOut.files.raw = Missing
           /\ Len(rows) = Len(toks)
           /\ \A i \in 1..Len(toks) :
                 \A f \in {"wit", "title", "descr", "ac", "prio"} :
                    rows[i][f] = TicketOf(toks[i])[f]

C15_Witness ==
  /\ exportIn = <<"[", "R3", ",", "R1", ",", "R2", "]">>
  /\ exportOut.ret = "csv"
  /\ Len(exportOut.files.csv[1]) = 3
  /\ exportOut.files.csv[1][1].title = "T3"

\* C16: runs with distinct thread ids are independent under every
\* interleaving: a step of one run changes nothing of another run's State,
\* status or checkpoint, and the files a terminated run wrote still hold
\* what that run wrote.
SavedJson(draft) == Present(RemoveTok(RemoveTok(draft, FENCEJSON), FENCE))

C16_ArtifactsKept ==
  \A t \in Threads : Status(t) = "TERMINATED" => files.json = SavedJson(exportArg[t])

C16_OtherRunUntouched(t) ==
  lastOp'.t # t
    => /\ values'[t] = values[t]
       /\ nextNode'[t] = nextNode[t]
       /\ interrupted'[t] = interrupted[t]
       /\ resumeVal'[t] = resumeVal[t]
       /\ started'[t] = started[t]
       /\ Status(t)' = Status(t)
       /\ pc'[t] = pc[t]

C16_RunsAreIndependent ==
  /\ []C16_ArtifactsKept
  /\ [][\A t \in Threads : C16_OtherRunUntouched(t)]_vars

\* C17: the save step, and with it the export, runs only when
\* human_feedback is "approve" up to letter case: a run whose pending node
\* is save_tickets, that has exported or that is TERMINATED has an approval
\* as its latest resume value.
C17_SaveOnlyAfterApproval ==
  \A t \in Threads :
    (nextNode[t] = "save_tickets" \/ exportCalls[t] > 0 \/ Status(t) = "TERMINATED")
      => /\ "human_feedback" \in DOMAIN values[t]
         /\ IsApproveCI(values[t]["human_feedback"])
         /\ lastResume[t] = <<values[t]["human_feedback"]>>

C17_Witness ==
  /\ Status(MainThread) = "TERMINATED"
  /\ resumes[MainThread] = 2
  /\ lastResume[MainThread] = <<ApproveMixed>>
  /\ exportCalls[MainThread] = 1

\* C18: the text given to the export is the draft of the State checkpointed
\* at the latest pause, and the call that exports runs the review step and
\* the save step only.
C18_ExportsApprovedDraft ==
  \A t \in Threads :
    exportCalls[t] > 0
      => /\ exportArg[t] = pausedValues[t]["ado_tickets"]
         /\ exportArg[t] = values[t]["ado_tickets"]
         /\ callSteps[t] = <<"human_review", "save_tickets">>

C18_Witness ==
  /\ exportCalls[MainThread] = 1
  /\ exportArg[MainThread] = <<FENCEJSON, WS, "[", "R1", "]", WS, FENCE>>
  /\ resumes[MainThread] = 2
  /\ files.csv = Present(<<CsvRow(TicketOf("R1"))>>)

\* C19: a call that ends in a pause has run the analysis once and then the
\* drafting once before the review step (after the completed review, when
\* the call is a resume), and the analysis prompt was built from the latest
\* feedback.
C19_AnalyzeThenDraftBeforeReview ==
  \A t \in Threads :
    (LastT = t /\ lastOp.op = "ReviewSuspend")
      => /\ \/ resumes[t] = 0
               /\ callSteps[t] = <<"analyze_spec", "create_tickets", "human_review">>
            \/ resumes[t] > 0
               /\ callSteps[t] =
                    <<"human_review", "analyze_spec", "create_tickets", "human_review">>
               /\ values[t]["human_feedback"] = lastResume[t][1]
         /\ lastPrompt[t] = AnalysisPrompt(values[t])
         /\ lastResume[t] # << >> => Contains(lastPrompt[t], lastResume[t][1])

C19_Witness ==
  /\ lastOp.op = "ReviewSuspend"
  /\ resumes[MainThread] = 2
  /\ lastResume[MainThread] = <<ApproveSpace>>
  /\ callSteps[MainThread] = <<"human_review", "analyze_spec", "create_tickets", "human_review">>

\* C20: the loop of __main__ resumes only right after a snapshot that shows
\* a pending node, on a PAUSED run, once per snapshot; it leaves the loop
\* exactly when the snapshot shows no pending node, and a TERMINATED run is
\* never resumed.
C20_LoopState ==
  \A t \in Threads :
    /\ pc[t] = "input" => (Status(t) = "PAUSED" /\ snapshot[t].next = "human_review")
    /\ pc[t] = "done" => (Status(t) = "TERMINATED" /\ snapshot[t].next = NoNode)
    /\ pc[t] = "in_resume" => Status(t) # "TERMINATED"

C20_LoopStep(t) ==
  /\ lastOp' = [op |-> "Resume", t |-> t]
        => /\ lastOp = [op |-> "GetState", t |-> t]
           /\ snapshot[t].next # NoNode
           /\ Status(t) = "PAUSED"
           /\ resumes'[t] = resumes[t] + 1
  /\ lastOp' = [op |-> "GetState", t |-> t]
        => (pc'[t] = "done" <=> nextNode[t] = NoNode)
  /\ (pc'[t] = "done" /\ pc[t] # "done") => lastOp' = [op |-> "GetState", t |-> t]

C20_LoopResumesOnlyWhenPaused ==
  /\ []C20_LoopState
  /\ [][\A t \in Threads : C20_LoopStep(t)]_vars

C20_Witness ==
  /\ pc[MainThread] = "done"
  /\ resumes[MainThread] = 2
  /\ pauses[MainThread] = 2
  /\ snapshot[MainThread].next = NoNode

====
